---- MODULE Spec2Model ----
(***************************************************************************)
(* Model of the Solar System Explorer command-line client (src/main.rs):   *)
(* one run of main, from the parsed command line to the return of main.    *)
(* The remote API is the environment: it answers the single GET with a     *)
(* transport failure or with a status and a body drawn from bounded sets.  *)
(***************************************************************************)
EXTENDS Integers, Sequences, FiniteSets, TLC

VARIABLES args, mode, pc, url, requests, resp, result, out, exitCode

vars == <<args, mode, pc, url, requests, resp, result, out, exitCode>>

----------------------------------------------------------------------------
(* Bounds of the explored inputs.                                          *)

\* longest "bodies" array the server returns
MaxBodies == 2
\* a detail body has at most MaxOdd physical attributes present, or at most
\* MaxOdd of them absent
MaxOdd == 1

----------------------------------------------------------------------------
(* Option<T>: None is the empty tuple, Some(v) the one-element tuple.      *)

None == <<>>
Some(v) == <<v>>
IsSome(o) == o # <<>>
Unwrap(o) == o[1]

\* Option::unwrap_or
UnwrapOrMutant(o, d) == d
UnwrapOr(o, d) == IF IsSome(o) THEN Unwrap(o) ELSE d

----------------------------------------------------------------------------
(* JSON documents the server can send.                                     *)

\* the Option fields of CelestialBody, which serde reads under the Rust
\* field names
AttrKeys ==
  {"density", "gravity", "escape", "mean_radius", "equa_radius",
   "polar_radius", "flattening", "sideral_orbit", "sideral_rotation",
   "axial_tilt", "avg_temp", "body_type"}

\* the value the server sends under an attribute key
AttrValue(k) ==
  CASE k = "density"          -> 393
    [] k = "gravity"          -> 371
    [] k = "escape"           -> 5030
    [] k = "mean_radius"      -> 3389
    [] k = "equa_radius"      -> 3396
    [] k = "polar_radius"     -> 3376
    [] k = "flattening"       -> 589
    [] k = "sideral_orbit"    -> 687
    [] k = "sideral_rotation" -> 24
    [] k = "axial_tilt"       -> 25
    [] k = "avg_temp"         -> 210
    [] k = "body_type"        -> "Planet"

\* keys of a JSON object found inside "mass": the API's camelCase keys and
\* the keys named like the fields of struct Mass
MassKeys == {"massValue", "massExponent", "mass_value", "mass_exponent"}

MassJson(S) ==
  [k \in MassKeys |->
     IF k \notin S THEN None
     ELSE IF k \in {"massValue", "mass_value"} THEN Some(642) ELSE Some(23)]

\* the "mass" member: absent, or an object in one of the two spellings
MassMembers ==
  {None} \cup
  {Some(MassJson(S)) : S \in (SUBSET {"massValue", "massExponent"})
                             \cup (SUBSET {"mass_value", "mass_exponent"})}

BodyKeys == {"name", "id", "englishName", "isPlanet", "mass"} \cup AttrKeys

\* a JSON object: every key is absent (None) or carries a value
JsonBody(n, i, e, p, m, S) ==
  [k \in BodyKeys |->
     CASE k = "name"        -> n
       [] k = "id"          -> i
       [] k = "englishName" -> e
       [] k = "isPlanet"    -> p
       [] k = "mass"        -> m
       [] OTHER             -> IF k \in S THEN Some(AttrValue(k)) ELSE None]

EmptyObject == JsonBody(None, None, None, None, None, {})

AttrSubsets ==
  {S \in SUBSET AttrKeys :
     Cardinality(S) <= MaxOdd \/ Cardinality(AttrKeys \ S) <= MaxOdd}

\* objects answered by the detail endpoint: every choice of the members
\* without Option, with all or none of the attributes, and the records that
\* decode with every attribute subset
DetailObjects ==
  {JsonBody(n, i, e, p, m, S) :
     n \in {None, Some("Mars")}, i \in {None, Some("mars")},
     e \in {None, Some("Mars")}, p \in {None, Some(TRUE), Some(FALSE)},
     m \in MassMembers, S \in {{}, AttrKeys}}
  \cup
  {JsonBody(Some("Mars"), Some("mars"), Some("Mars"), p, m, S) :
     p \in {Some(TRUE), Some(FALSE)}, m \in MassMembers, S \in AttrSubsets}

FullMass == Some(MassJson({"mass_value", "mass_exponent"}))

\* objects found in the "bodies" array
ListObjects ==
  {JsonBody(n, i, e, p, None, {}) :
     n \in {None, Some("Moon")}, i \in {None, Some("lune")},
     e \in {None, Some("Moon")}, p \in {None, Some(TRUE), Some(FALSE)}}
  \cup
  {JsonBody(Some("Mars"), Some("mars"), Some("Mars"), Some(TRUE),
            FullMass, AttrKeys)}

SeqsUpTo(S, n) == UNION {[1..k -> S] : k \in 0..n}

\* a response body: text that is not JSON (json FALSE), or a JSON object
\* with the members of obj and, when present, the member "bodies"
Garbage == [json |-> FALSE, obj |-> EmptyObject, bodies |-> None]
ObjectDoc(o) == [json |-> TRUE, obj |-> o, bodies |-> None]
ListDoc(bs) == [json |-> TRUE, obj |-> EmptyObject, bodies |-> Some(bs)]

Docs ==
  {Garbage} \cup {ObjectDoc(o) : o \in DetailObjects}
            \cup {ListDoc(bs) : bs \in SeqsUpTo(ListObjects, MaxBodies)}

\* bodies of a non-success answer: no JSON, an object without body members,
\* or (nothing stops a server) a whole body record
ErrorDocs ==
  {Garbage, ObjectDoc(EmptyObject),
   ObjectDoc(JsonBody(Some("Mars"), Some("mars"), Some("Mars"), Some(TRUE),
                      FullMass, AttrKeys))}

Responses ==
  {[status |-> 200, doc |-> d] : d \in Docs}
  \cup {[status |-> 404, doc |-> d] : d \in ErrorDocs}

\* a short catalogue: the bodies of ErrorDocs under either status, and the
\* arrays made of one complete record and one record without its name
SampleObjects ==
  {JsonBody(Some("Mars"), Some("mars"), Some("Mars"), Some(TRUE),
            FullMass, AttrKeys),
   JsonBody(None, Some("lune"), Some("Moon"), Some(FALSE), None, {})}

SampleResponses ==
  {[status |-> s, doc |-> d] : s \in {200, 404}, d \in ErrorDocs}
  \cup {[status |-> 200, doc |-> ListDoc(bs)] :
          bs \in SeqsUpTo(SampleObjects, MaxBodies)}

NoResponse == [status |-> 0, doc |-> Garbage]

----------------------------------------------------------------------------
(* Decoder: the serde derives of ApiResponse, CelestialBody and Mass.      *)

DecodeMass(m) ==
  [mass_value |-> m["mass_value"], mass_exponent |-> m["mass_exponent"]]

\* the fields without Option are required; unknown keys are ignored
BodyDecodes(o) ==
  /\ IsSome(o["name"])
  /\ IsSome(o["id"])
  /\ IsSome(o["englishName"])
  /\ IsSome(o["isPlanet"])

DecodeBody(o) ==
  [name             |-> Unwrap(o["name"]),
   id               |-> Unwrap(o["id"]),
   english_name     |-> Unwrap(o["englishName"]),
   is_planet        |-> Unwrap(o["isPlanet"]),
   mass             |-> IF IsSome(o["mass"])
                        THEN Some(DecodeMass(Unwrap(o["mass"]))) ELSE None,
   density          |-> o["density"],
   gravity          |-> o["gravity"],
   escape           |-> o["escape"],
   mean_radius      |-> o["mean_radius"],
   equa_radius      |-> o["equa_radius"],
   polar_radius     |-> o["polar_radius"],
   flattening       |-> o["flattening"],
   sideral_orbit    |-> o["sideral_orbit"],
   sideral_rotation |-> o["sideral_rotation"],
   axial_tilt       |-> o["axial_tilt"],
   avg_temp         |-> o["avg_temp"],
   body_type        |-> o["body_type"]]

\* Result<_, Error>
Ok(v) == [ok |-> TRUE, value |-> Some(v), cause |-> "none"]
Err(c) == [ok |-> FALSE, value |-> None, cause |-> c]
Pending == [ok |-> FALSE, value |-> None, cause |-> "pending"]

\* response.json::<CelestialBody>()
JsonCelestialBody(d) ==
  IF d.json /\ BodyDecodes(d.obj) THEN Ok(DecodeBody(d.obj)) ELSE Err("decode")

\* response.json::<ApiResponse>() followed by Ok(api_response.bodies)
JsonApiResponseMutant(d) ==
  IF d.json /\ IsSome(d.bodies)
  THEN Ok(LET bs == Unwrap(d.bodies)
              good == SelectSeq(bs, BodyDecodes)
          IN [j \in 1..Len(good) |-> DecodeBody(good[j])])
  ELSE Err("decode")
JsonApiResponse(d) ==
  IF /\ d.json
     /\ IsSome(d.bodies)
     /\ \A j \in 1..Len(Unwrap(d.bodies)) : BodyDecodes(Unwrap(d.bodies)[j])
  THEN Ok([j \in 1..Len(Unwrap(d.bodies)) |-> DecodeBody(Unwrap(d.bodies)[j])])
  ELSE Err("decode")

----------------------------------------------------------------------------
(* Request builder.                                                        *)

\* "https://api.le-systeme-solaire.net/rest/bodies/" as a sequence of
\* pieces of text, every "/" a piece of its own
BaseUrl ==
  <<"https:", "/", "/", "api.le-systeme-solaire.net", "/", "rest", "/",
    "bodies", "/">>

\* format!("https://api.le-systeme-solaire.net/rest/bodies/{}", name):
\* the characters of name follow the base
DetailUrlMutant(name) == BaseUrl
DetailUrl(name) == BaseUrl \o name

\* identifiers given on the command line, as sequences of characters
Names == {<<>>, <<"m", "a", "r", "s">>, <<"a", "/", "b">>}

Invocations ==
  {[sub |-> "none", name |-> <<>>]}
  \cup {[sub |-> "details", name |-> n] : n \in Names}

----------------------------------------------------------------------------
(* Presenter.                                                              *)

\* println! of the first line of the details arm
HeaderLine(b) ==
  [kind |-> "header", name |-> b.name, id |-> b.id,
   english_name |-> b.english_name, is_planet |-> b.is_planet]

\* the if let / else chain on body.mass
MassLine(b) ==
  IF IsSome(b.mass)
  THEN LET mass == Unwrap(b.mass) IN
       IF IsSome(mass.mass_value) /\ IsSome(mass.mass_exponent)
       THEN [kind |-> "mass", value |-> Unwrap(mass.mass_value),
             exponent |-> Unwrap(mass.mass_exponent)]
       ELSE [kind |-> "mass_incomplete"]
  ELSE [kind |-> "no_mass"]

AttrLine(label, v) == [kind |-> "attr", label |-> label, value |-> v]

\* the twelve println! that follow the mass line
AttrLines(b) ==
  << AttrLine("Density", UnwrapOr(b.density, 0)),
     AttrLine("Gravity", UnwrapOr(b.gravity, 0)),
     AttrLine("Escape Velocity", UnwrapOr(b.escape, 0)),
     AttrLine("Mean Radius", UnwrapOr(b.mean_radius, 0)),
     AttrLine("Equatorial Radius", UnwrapOr(b.equa_radius, 0)),
     AttrLine("Polar Radius", UnwrapOr(b.polar_radius, 0)),
     AttrLine("Flattening", UnwrapOr(b.flattening, 0)),
     AttrLine("Orbital Period", UnwrapOr(b.sideral_orbit, 0)),
     AttrLine("Rotation Period", UnwrapOr(b.sideral_rotation, 0)),
     AttrLine("Axial Tilt", UnwrapOr(b.axial_tilt, 0)),
     AttrLine("Average Temperature", UnwrapOr(b.avg_temp, 0)),
     AttrLine("Body Type", UnwrapOr(b.body_type, "Not specified")) >>

\* println! of the list loop
ListLine(b) ==
  [kind |-> "list", name |-> b.name, id |-> b.id, is_planet |-> b.is_planet]

\* the two Err arms
DetailsErrorLine(name, e) ==
  [kind |-> "error", op |-> "fetching details", name |-> name, cause |-> e]
DataErrorLine(e) ==
  [kind |-> "error", op |-> "fetching data", name |-> <<>>, cause |-> e]

----------------------------------------------------------------------------
(* The run of main.                                                        *)

Init ==
  /\ args \in Invocations
  /\ mode = "unset"
  /\ pc = "start"
  /\ url = <<>>
  /\ requests = 0
  /\ resp = NoResponse
  /\ result = Pending
  /\ out = <<>>
  /\ exitCode = None

\* if let Some(matches) = matches.subcommand_matches("details")
SelectDetails ==
  /\ pc = "start"
  /\ args.sub = "details"
  /\ mode' = "details"
  /\ pc' = "build"
  /\ UNCHANGED <<args, url, requests, resp, result, out, exitCode>>

\* the else arm: no subcommand
SelectList ==
  /\ pc = "start"
  /\ args.sub = "none"
  /\ mode' = "list"
  /\ pc' = "build"
  /\ UNCHANGED <<args, url, requests, resp, result, out, exitCode>>

\* let url = ... of the fetch function of the mode
BuildUrl ==
  /\ pc = "build"
  /\ url' = IF mode = "details" THEN DetailUrl(args.name) ELSE BaseUrl
  /\ pc' = "get"
  /\ UNCHANGED <<args, mode, requests, resp, result, out, exitCode>>

\* reqwest::blocking::get(url)? fails: the function returns the error
GetFailsMutant ==
  /\ pc = "get"
  /\ requests < 2
  /\ requests' = requests + 1
  /\ IF requests = 0
     THEN UNCHANGED <<pc, result>>
     ELSE result' = Err("transport") /\ pc' = "present"
  /\ UNCHANGED <<args, mode, url, resp, out, exitCode>>
GetFails ==
  /\ pc = "get"
  /\ requests' = requests + 1
  /\ result' = Err("transport")
  /\ pc' = "present"
  /\ UNCHANGED <<args, mode, url, resp, out, exitCode>>

\* reqwest::blocking::get(url)? returns a response, whatever its status
GetRespondsFrom(R) ==
  /\ pc = "get"
  /\ requests' = requests + 1
  /\ \E r \in R : resp' = r
  /\ pc' = "decode"
  /\ UNCHANGED <<args, mode, url, result, out, exitCode>>

GetResponds == GetRespondsFrom(Responses)

\* the same call against a server with a short catalogue
GetRespondsSample == GetRespondsFrom(SampleResponses)

\* response.json() of the fetch function of the mode
Decode ==
  /\ pc = "decode"
  /\ result' = IF mode = "details" THEN JsonCelestialBody(resp.doc)
               ELSE JsonApiResponse(resp.doc)
  /\ pc' = "present"
  /\ UNCHANGED <<args, mode, url, requests, resp, out, exitCode>>

\* Ok(body) arm of the details match
PrintDetails ==
  /\ pc = "present"
  /\ mode = "details"
  /\ result.ok
  /\ LET body == Unwrap(result.value) IN
       out' = <<HeaderLine(body), MassLine(body)>> \o AttrLines(body)
  /\ pc' = "return"
  /\ UNCHANGED <<args, mode, url, requests, resp, result, exitCode>>

\* one iteration of for body in bodies
PrintBody ==
  /\ pc = "present"
  /\ mode = "list"
  /\ result.ok
  /\ Len(out) < Len(Unwrap(result.value))
  /\ out' = Append(out, ListLine(Unwrap(result.value)[Len(out) + 1]))
  /\ UNCHANGED <<args, mode, pc, url, requests, resp, result, exitCode>>

\* the iterator is exhausted
EndLoop ==
  /\ pc = "present"
  /\ mode = "list"
  /\ result.ok
  /\ Len(out) = Len(Unwrap(result.value))
  /\ pc' = "return"
  /\ UNCHANGED <<args, mode, url, requests, resp, result, out, exitCode>>

\* Err(e) arm of either match
PrintErrorMutant ==
  /\ pc = "present"
  /\ ~result.ok
  /\ out' = <<>>
  /\ pc' = "return"
  /\ UNCHANGED <<args, mode, url, requests, resp, result, exitCode>>
PrintErrorAlways ==
  /\ pc = "present"
  /\ out' = Append(out, IF mode = "details"
                        THEN DetailsErrorLine(args.name, result.cause)
                        ELSE DataErrorLine(result.cause))
  /\ pc' = "return"
  /\ UNCHANGED <<args, mode, url, requests, resp, result, exitCode>>
PrintError ==
  /\ pc = "present"
  /\ ~result.ok
  /\ out' = Append(out, IF mode = "details"
                        THEN DetailsErrorLine(args.name, result.cause)
                        ELSE DataErrorLine(result.cause))
  /\ pc' = "return"
  /\ UNCHANGED <<args, mode, url, requests, resp, result, exitCode>>

\* main falls off its end: it returns (), the process exits with status 0
Return ==
  /\ pc = "return"
  /\ exitCode' = Some(0)
  /\ pc' = "done"
  /\ UNCHANGED <<args, mode, url, requests, resp, result, out>>

Next ==
  \/ SelectDetails
  \/ SelectList
  \/ BuildUrl
  \/ GetFails
  \/ GetResponds
  \/ Decode
  \/ PrintDetails
  \/ PrintBody
  \/ EndLoop
  \/ PrintError
  \/ Return

Spec == Init /\ [][Next]_vars

\* the run against the short catalogue
SampleNext ==
  \/ SelectDetails
  \/ SelectList
  \/ BuildUrl
  \/ GetFails
  \/ GetRespondsSample
  \/ Decode
  \/ PrintDetails
  \/ PrintBody
  \/ EndLoop
  \/ PrintError
  \/ Return

\* main is sequential code that runs to its end: its only wait is the
\* blocking GET, which returns a response or an error
LiveSpec == Init /\ [][SampleNext]_vars /\ WF_vars(SampleNext)

TypeOK ==
  /\ mode \in {"unset", "list", "details"}
  /\ pc \in {"start", "build", "get", "decode", "present", "return", "done"}
  /\ requests \in 0..1

----------------------------------------------------------------------------
(* Properties of the run.                                                  *)

Decoded == pc \in {"present", "return", "done"} /\ result.cause # "transport"

HasNameAndId(o) == IsSome(o["name"]) /\ IsSome(o["id"])

\* the "bodies" array of the response, empty when there is none
ReceivedBodies == IF IsSome(resp.doc.bodies) THEN Unwrap(resp.doc.bodies) ELSE <<>>

\* C1: in list mode, a response {"bodies": [...]} of N objects that each
\* carry name and id is printed as exactly N lines and no error line; line i
\* shows the name, the id and the isPlanet of object i, false when the object
\* has no isPlanet.
C1_ListPrintsEveryBody ==
  (/\ pc = "done"
   /\ mode = "list"
   /\ result.cause # "transport"
   /\ resp.doc.json
   /\ IsSome(resp.doc.bodies)
   /\ \A j \in 1..Len(ReceivedBodies) : HasNameAndId(ReceivedBodies[j]))
  => /\ Len(out) = Len(ReceivedBodies)
     /\ \A j \in 1..Len(out) :
          out[j] = [kind |-> "list",
                    name |-> Unwrap(ReceivedBodies[j]["name"]),
                    id |-> Unwrap(ReceivedBodies[j]["id"]),
                    is_planet |-> UnwrapOr(ReceivedBodies[j]["isPlanet"], FALSE)]

\* the mass line the response calls for, by the JSON keys massValue and
\* massExponent
ExpectedMassLine(o) ==
  IF IsSome(o["mass"])
  THEN LET m == Unwrap(o["mass"]) IN
       IF IsSome(m["massValue"]) /\ IsSome(m["massExponent"])
       THEN [kind |-> "mass", value |-> Unwrap(m["massValue"]),
             exponent |-> Unwrap(m["massExponent"])]
       ELSE [kind |-> "mass_incomplete"]
  ELSE [kind |-> "no_mass"]

\* C2: for a decoded detail response the second printed line is the mass
\* line: value and exponent when the JSON mass object has both massValue and
\* massExponent, the incomplete message when mass is there without one of
\* them, the no-mass message when mass is absent.
C2_MassLine ==
  (pc = "done" /\ mode = "details" /\ result.ok)
  => /\ Len(out) >= 2
     /\ out[1].kind = "header"
     /\ out[2] = ExpectedMassLine(resp.doc.obj)

\* C3: once a response was decoded, a body object that carries name and id
\* was decoded successfully whatever other members it lacks, as a detail
\* response and as every element of a list response.
C3_OptionalAbsenceDecodes ==
  /\ (Decoded /\ mode = "details" /\ resp.doc.json
        /\ HasNameAndId(resp.doc.obj)) => result.ok
  /\ (Decoded /\ mode = "list" /\ resp.doc.json /\ IsSome(resp.doc.bodies)
        /\ \A j \in 1..Len(ReceivedBodies) : HasNameAndId(ReceivedBodies[j]))
     => result.ok

\* the error line of the mode
ExpectedErrorLine(c) ==
  IF mode = "details"
  THEN [kind |-> "error", op |-> "fetching details", name |-> args.name,
        cause |-> c]
  ELSE [kind |-> "error", op |-> "fetching data", name |-> <<>>, cause |-> c]

\* C4: after a transport failure exactly one request was made, nothing but
\* the error line of the mode is ever printed, and the finished run has
\* printed exactly that line, which names the fetch and the cause, and has
\* returned from main.
C4_TransportFailure ==
  result.cause = "transport"
  => /\ requests = 1
     /\ resp = NoResponse
     /\ pc \in {"present", "return", "done"}
     /\ pc = "present" => out = <<>>
     /\ pc \in {"return", "done"} => out = <<ExpectedErrorLine("transport")>>
     /\ pc = "done" => exitCode = Some(0)

C4_Witness ==
  /\ pc = "done"
  /\ mode = "details"
  /\ result.cause = "transport"
  /\ out = <<ExpectedErrorLine("transport")>>

\* a record of the response lacks name or id
RequiredMissing ==
  /\ resp.doc.json
  /\ IF mode = "details" THEN ~HasNameAndId(resp.doc.obj)
     ELSE /\ IsSome(resp.doc.bodies)
          /\ \E j \in 1..Len(ReceivedBodies) : ~HasNameAndId(ReceivedBodies[j])

\* C5: when a record of the response lacks name or id, decoding fails with
\* a decode error, no body line is ever printed (in list mode not even for
\* the records that are complete), and the finished run has printed exactly
\* one error line.
C5_RequiredFieldMissing ==
  (Decoded /\ RequiredMissing)
  => /\ result = Err("decode")
     /\ \A j \in 1..Len(out) : out[j].kind = "error"
     /\ pc \in {"return", "done"} => out = <<ExpectedErrorLine("decode")>>

C5_Witness ==
  /\ pc = "done"
  /\ mode = "list"
  /\ Len(ReceivedBodies) = 2
  /\ BodyDecodes(ReceivedBodies[1])
  /\ ~IsSome(ReceivedBodies[2]["name"])
  /\ out = <<ExpectedErrorLine("decode")>>

\* C6: at most one GET is issued in a run: none before the fetch step, and
\* exactly one from then on, whether the fetch failed, the decoding failed
\* or lines were printed.
C6_OneRequest ==
  /\ requests <= 1
  /\ pc \in {"start", "build", "get"} => requests = 0 /\ out = <<>>
  /\ pc \in {"decode", "present", "return", "done"} => requests = 1

C6_Witness ==
  /\ pc = "done"
  /\ requests = 1
  /\ result = Err("decode")
  /\ Len(out) = 1

\* the text that follows the collection endpoint in the requested URL
Appended == SubSeq(url, Len(BaseUrl) + 1, Len(url))

Built == pc \notin {"start", "build"}

\* C7 as stated: the list request goes to the collection endpoint and is
\* decoded as the "bodies" wrapper; the detail request goes to the endpoint
\* with the identifier appended unchanged as one path segment and is decoded
\* as a bare body object; every failed detail run prints the one generic
\* error line.
C7_IdentifierIsOneSegment ==
  /\ (Built /\ mode = "list") => url = BaseUrl
  /\ (Built /\ mode = "details")
     => /\ SubSeq(url, 1, Len(BaseUrl)) = BaseUrl
        /\ Appended = args.name
        /\ \A j \in 1..Len(Appended) : Appended[j] # "/"
  /\ (Decoded /\ result.ok /\ mode = "list")
     => /\ IsSome(resp.doc.bodies)
        /\ Len(Unwrap(result.value)) = Len(ReceivedBodies)
  /\ (Decoded /\ result.ok /\ mode = "details")
     => /\ ~IsSome(resp.doc.bodies)
        /\ Unwrap(result.value).id = Unwrap(resp.doc.obj["id"])
  /\ (pc = "done" /\ mode = "details" /\ ~result.ok)
     => out = <<ExpectedErrorLine(result.cause)>>

\* C7 amended: as C7, but the identifier is appended character for
\* character after the endpoint's final "/", so that it is one path segment
\* only when it holds no "/" itself.
C7_IdentifierAppendedVerbatim ==
  /\ (Built /\ mode = "list") => url = BaseUrl
  /\ (Built /\ mode = "details")
     => /\ SubSeq(url, 1, Len(BaseUrl)) = BaseUrl
        /\ Appended = args.name
        /\ (\A j \in 1..Len(Appended) : Appended[j] # "/")
           <=> (\A j \in 1..Len(args.name) : args.name[j] # "/")
  /\ (Decoded /\ result.ok /\ mode = "list")
     => /\ IsSome(resp.doc.bodies)
        /\ Len(Unwrap(result.value)) = Len(ReceivedBodies)
  /\ (Decoded /\ result.ok /\ mode = "details")
     => /\ ~IsSome(resp.doc.bodies)
        /\ Unwrap(result.value).id = Unwrap(resp.doc.obj["id"])
  /\ (pc = "done" /\ mode = "details" /\ ~result.ok)
     => out = <<ExpectedErrorLine(result.cause)>>

C7_Witness ==
  /\ pc = "done"
  /\ mode = "details"
  /\ args.name = <<"a", "/", "b">>
  /\ url = BaseUrl \o <<"a", "/", "b">>
  /\ resp.status = 404
  /\ out = <<ExpectedErrorLine("decode")>>

\* C8: a run that ends after a network or decode failure has printed an
\* error line and ends with an exit status other than that of success; a
\* successful run ends with the status of success.
C8_ExitDistinguishesFailure ==
  pc = "done"
  => IF result.ok THEN exitCode = Some(0)
     ELSE /\ Len(out) = 1
          /\ out[1].kind = "error"
          /\ exitCode # Some(0)

\* the attribute lines in printing order: label, JSON key, placeholder
AttrOrder ==
  << <<"Density", "density", 0>>,
     <<"Gravity", "gravity", 0>>,
     <<"Escape Velocity", "escape", 0>>,
     <<"Mean Radius", "mean_radius", 0>>,
     <<"Equatorial Radius", "equa_radius", 0>>,
     <<"Polar Radius", "polar_radius", 0>>,
     <<"Flattening", "flattening", 0>>,
     <<"Orbital Period", "sideral_orbit", 0>>,
     <<"Rotation Period", "sideral_rotation", 0>>,
     <<"Axial Tilt", "axial_tilt", 0>>,
     <<"Average Temperature", "avg_temp", 0>>,
     <<"Body Type", "body_type", "Not specified">> >>

\* C9: a decoded detail record is printed as exactly 14 lines: the header,
\* one mass line, then the twelve attributes in their fixed order, each
\* showing the value received, or the placeholder (0, "Not specified" for
\* the body type) when the response has no such attribute.
C9_DetailLines ==
  (pc \in {"return", "done"} /\ mode = "details" /\ result.ok)
  => /\ Len(out) = 14
     /\ out[1].kind = "header"
     /\ out[2].kind \in {"mass", "mass_incomplete", "no_mass"}
     /\ \A j \in 1..12 :
          LET received == resp.doc.obj[AttrOrder[j][2]] IN
          /\ out[j + 2].kind = "attr"
          /\ out[j + 2].label = AttrOrder[j][1]
          /\ out[j + 2].value =
               IF IsSome(received) THEN Unwrap(received) ELSE AttrOrder[j][3]

C9_Witness ==
  /\ pc = "done"
  /\ mode = "details"
  /\ result.ok
  /\ IsSome(resp.doc.obj["density"])
  /\ ~IsSome(resp.doc.obj["gravity"])
  /\ Len(out) = 14
  /\ out[3].value = 393
  /\ out[4].value = 0

PcOrder ==
  {<<"start", "build">>, <<"build", "get">>, <<"get", "decode">>,
   <<"get", "present">>, <<"decode", "present">>, <<"present", "return">>,
   <<"return", "done">>}

ResultLines(o) ==
  \A j \in 1..Len(o) : o[j].kind \in {"list", "header", "mass",
                                      "mass_incomplete", "no_mass", "attr"}

\* nothing but result lines after a success that printed all of them, or
\* nothing but one error line after a failure
OneOutcome ==
  \/ /\ result.ok
     /\ ResultLines(out)
     /\ Len(out) = IF mode = "details" THEN 14 ELSE Len(Unwrap(result.value))
  \/ /\ ~result.ok
     /\ Len(out) = 1
     /\ out[1].kind = "error"

C10_Order ==
  /\ mode' # mode => mode = "unset" /\ pc = "start"
  /\ mode' # "unset" => (mode' = "details" <=> args.sub = "details")
  /\ args' = args
  /\ pc' # pc => <<pc, pc'>> \in PcOrder
  /\ url' # url => pc = "build" /\ requests = 0
  /\ requests' # requests => pc = "get"
  /\ result' # result => pc \in {"get", "decode"} /\ out = <<>>
  /\ out' # out => pc = "present" /\ (ResultLines(out') <=> result.ok)

\* C10: the mode is chosen once, at the start, from the subcommand; the
\* steps follow the order build URL, GET, decode, present; a result line is
\* printed only after the decoding succeeded; and once the GET was issued the
\* run ends, having printed either all result lines or one error line.
C10_StraightLine ==
  /\ [][C10_Order]_vars
  /\ [](pc \in {"return", "done"} => OneOutcome)
  /\ (requests = 1) ~> (pc = "done")

C10_Witness ==
  /\ pc = "done"
  /\ mode = "list"
  /\ result.ok
  /\ Len(out) = 2
  /\ ResultLines(out)
  /\ requests = 1

====
